---- MODULE Spec2Model ----
(***************************************************************************)
(* The HTTP service of deploy-test (index.js): an Express application      *)
(* whose stack is, in registration order, the static-file middleware, the  *)
(* JSON body parser, four routes and a 404 fallback.  Every client holds   *)
(* at most one request in flight; a request walks down the stack one       *)
(* matched layer at a time, so that requests of different clients          *)
(* interleave between layers.  The first client sends any request of the   *)
(* bounded set, the second a few of each kind.                             *)
(*                                                                         *)
(* Text is a sequence of tokens (one-character strings, or whole words     *)
(* where the characters never matter), so that decoding, parsing and       *)
(* formatting are computed rather than assumed.                            *)
(*                                                                         *)
(* The deployment script (deploy.ps1) is a second, sequential machine      *)
(* with its own specification, SpecDeploy: the service does not run while  *)
(* it deploys, and the script does not run under Spec.                     *)
(***************************************************************************)
EXTENDS Integers, Sequences, FiniteSets, TLC

(* ------------------------------ bounds -------------------------------- *)

\* longest :name path segment (in characters of the encoded URL)
MaxNameLen == 3
\* deepest nesting of a JSON value sent to the echo endpoint
MaxDepth == 1
\* latest reading of the wall clock, in ticks
MaxTicks == 1

Clients == {"c1", "c2"}

(* ------------------------------ requests ------------------------------ *)

Methods == {"GET", "HEAD", "POST", "DELETE"}

RootPath == <<"/">>
AboutPath == <<"/", "about.html">>
InfoPath == <<"/", "api", "/", "info">>
EchoPath == <<"/", "api", "/", "echo">>
GreetPrefix == <<"/", "api", "/", "greet", "/">>
MissingPath == <<"/", "does-not-exist">>

\* characters a :name segment is written with in the URL: a letter, a hex
\* digit and the escape sign, so that "%22" is an escape and "%2n" is not
NameChars == {"n", "2", "%"}

SeqsUpTo(S, n) == UNION {[1..k -> S] : k \in 0..n}

EncodedNames == SeqsUpTo(NameChars, MaxNameLen) \ {<<>>}

GreetPath(name) == GreetPrefix \o name

\* GreetPrefix itself is /api/greet/ with an empty name
FixedPaths == {RootPath, AboutPath, InfoPath, EchoPath, GreetPrefix, MissingPath}

(* JSON values: t is the shape, a the children (at most one, under the key *)
(* "message" in an object).                                                *)
Primitives == {"null", "true", "1", "str"}

JsonPrim(p) == [t |-> p, a |-> <<>>]
JsonArr(items) == [t |-> "arr", a |-> items]
JsonObj(items) == [t |-> "obj", a |-> items]

RECURSIVE JsonValues(_)
JsonValues(d) ==
    IF d = 0 THEN {JsonPrim(p) : p \in Primitives}
    ELSE {JsonPrim(p) : p \in Primitives}
         \cup {JsonArr(<<>>), JsonObj(<<>>)}
         \cup {JsonArr(<<v>>) : v \in JsonValues(d - 1)}
         \cup {JsonObj(<<v>>) : v \in JsonValues(d - 1)}

PrimToken(p) == IF p = "str" THEN "\"hi\"" ELSE p

\* JSON.stringify, as the client (public/app.js) applies it to what it sends
RECURSIVE Stringify(_)
Stringify(v) ==
    CASE v.t = "arr" ->
            <<"[">> \o (IF v.a = <<>> THEN <<>> ELSE Stringify(v.a[1])) \o <<"]">>
      [] v.t = "obj" ->
            <<"{">> \o (IF v.a = <<>> THEN <<>>
                        ELSE <<"\"message\"", ":">> \o Stringify(v.a[1])) \o <<"}">>
      [] OTHER -> <<PrimToken(v.t)>>

NoBody == [present |-> FALSE, ctype |-> "none", raw |-> <<>>]
JsonBody(raw) == [present |-> TRUE, ctype |-> "application/json", raw |-> raw]

\* texts that are not JSON: the first three start like an object or an array
MalformedTexts == {<<"{">>, <<"[", "1">>, <<"[", "]", "]">>, <<"}">>}

\* the values the client serialises into the body of an echo request
SentValues == JsonValues(MaxDepth)

EchoBodies ==
    {JsonBody(Stringify(v)) : v \in SentValues}
    \cup {JsonBody(t) : t \in MalformedTexts}
    \cup {JsonBody(<<>>), NoBody,
          [present |-> FALSE, ctype |-> "application/json", raw |-> <<>>],
          [present |-> TRUE, ctype |-> "text/plain", raw |-> <<"{", "}">>]}

Request(m, p, b) == [method |-> m, path |-> p, body |-> b]

Requests ==
    {Request(m, p, NoBody) : m \in Methods, p \in FixedPaths}
    \cup {Request("GET", GreetPath(n), NoBody) : n \in EncodedNames}
    \cup {Request(m, GreetPath(n), NoBody) :
            m \in Methods, n \in {<<"n">>, <<"%", "2">>}}
    \cup {Request("POST", EchoPath, b) : b \in EchoBodies}
    \cup {Request(m, p, JsonBody(<<"{">>)) : m \in {"GET", "POST"}, p \in FixedPaths}

\* the requests the second client is limited to: one or two per layer
CoreRequests ==
    {Request("GET", p, NoBody) : p \in {RootPath, InfoPath, MissingPath}}
    \cup {Request("GET", GreetPath(n), NoBody) : n \in {<<"n">>, <<"%", "2", "2">>}}
    \cup {Request("POST", EchoPath, JsonBody(t)) :
            t \in {Stringify(JsonObj(<<JsonPrim("str")>>)), <<"{">>}}

\* the first client sends any request, the second the core ones
Sends(c) == IF c = "c1" THEN Requests ELSE CoreRequests

NoRequest == Request("", <<>>, NoBody)

(* --------------------------- URI decoding ----------------------------- *)

\* the escapes of one ASCII character that the names above can spell
EscapeTable == [h \in {<<"2", "2">>} |-> "\""]

FailedDecode == [ok |-> FALSE, val |-> <<>>]

\* faulty variant: the parameter is used as it stands in the URL
DecodeNothing(s) == [ok |-> TRUE, val |-> s]

\* decodeURIComponent: "%" must start a two-digit hex escape, or URIError
RECURSIVE DecodeURIComponent(_)
DecodeURIComponent(s) ==
    IF s = <<>> THEN [ok |-> TRUE, val |-> <<>>]
    ELSE IF Head(s) # "%" THEN
        LET r == DecodeURIComponent(Tail(s))
        IN  IF r.ok THEN [ok |-> TRUE, val |-> <<Head(s)>> \o r.val] ELSE FailedDecode
    ELSE IF Len(s) >= 3 /\ <<s[2], s[3]>> \in DOMAIN EscapeTable THEN
        LET r == DecodeURIComponent(SubSeq(s, 4, Len(s)))
        IN  IF r.ok THEN [ok |-> TRUE, val |-> <<EscapeTable[<<s[2], s[3]>>]>> \o r.val]
            ELSE FailedDecode
    ELSE FailedDecode

(* ----------------------------- JSON parsing --------------------------- *)

NoValue == JsonPrim("undefined")
EmptyObject == JsonObj(<<>>)

ParseFail == [ok |-> FALSE, val |-> NoValue, rest |-> <<>>]

PrimOfToken(tok) ==
    CASE tok = "null" -> "null"
      [] tok = "true" -> "true"
      [] tok = "1" -> "1"
      [] tok = "\"hi\"" -> "str"
      [] OTHER -> "none"

\* JSON.parse of one value at the head of toks; rest is what follows it
RECURSIVE ParseValue(_)
ParseValue(toks) ==
    IF toks = <<>> THEN ParseFail
    ELSE IF PrimOfToken(Head(toks)) # "none" THEN
        [ok |-> TRUE, val |-> JsonPrim(PrimOfToken(Head(toks))), rest |-> Tail(toks)]
    ELSE IF Head(toks) = "[" THEN
        IF Len(toks) >= 2 /\ toks[2] = "]" THEN
            [ok |-> TRUE, val |-> JsonArr(<<>>), rest |-> SubSeq(toks, 3, Len(toks))]
        ELSE
            LET r == ParseValue(Tail(toks))
            IN  IF r.ok /\ r.rest # <<>> /\ Head(r.rest) = "]" THEN
                    [ok |-> TRUE, val |-> JsonArr(<<r.val>>), rest |-> Tail(r.rest)]
                ELSE ParseFail
    ELSE IF Head(toks) = "{" THEN
        IF Len(toks) >= 2 /\ toks[2] = "}" THEN
            [ok |-> TRUE, val |-> JsonObj(<<>>), rest |-> SubSeq(toks, 3, Len(toks))]
        ELSE IF Len(toks) >= 3 /\ toks[2] = "\"message\"" /\ toks[3] = ":" THEN
            LET r == ParseValue(SubSeq(toks, 4, Len(toks)))
            IN  IF r.ok /\ r.rest # <<>> /\ Head(r.rest) = "}" THEN
                    [ok |-> TRUE, val |-> JsonObj(<<r.val>>), rest |-> Tail(r.rest)]
                ELSE ParseFail
        ELSE ParseFail
    ELSE ParseFail

\* body-parser's strict mode: the text must open an object or an array
StrictFirstChar(raw) == Head(raw) \in {"{", "["}

\* faulty variant: a text that does not parse is taken to be {}
JsonParseLenient(raw) ==
    IF raw # <<>> /\ StrictFirstChar(raw) /\ ParseValue(raw).ok /\ ParseValue(raw).rest = <<>>
    THEN [ok |-> TRUE, val |-> ParseValue(raw).val]
    ELSE [ok |-> TRUE, val |-> EmptyObject]

\* express.json() applied to the text of a body: an empty text is {},
\* anything else must pass the strict check and JSON.parse
JsonParse(raw) ==
    IF raw = <<>> THEN [ok |-> TRUE, val |-> EmptyObject]
    ELSE IF ~StrictFirstChar(raw) THEN [ok |-> FALSE, val |-> NoValue]
    ELSE LET r == ParseValue(raw)
         IN  IF r.ok /\ r.rest = <<>> THEN [ok |-> TRUE, val |-> r.val]
             ELSE [ok |-> FALSE, val |-> NoValue]

(* ------------------------------ timestamps ---------------------------- *)

\* one tick of the wall clock is 1 h 2 min 3 s 4 ms
TickMs == ((60 + 2) * 60 + 3) * 1000 + 4

\* what new Date() can read: the clock is an input of every handler
Times == 0..MaxTicks

Now(ticks) == ticks * TickMs

DigitChars == <<"0", "1", "2", "3", "4", "5", "6", "7", "8", "9">>
Digit(d) == DigitChars[d + 1]
Pad2(n) == <<Digit((n \div 10) % 10), Digit(n % 10)>>
Pad3(n) == <<Digit((n \div 100) % 10)>> \o Pad2(n % 100)

\* faulty variant: the time of day without its leading zeros
ToLocalTime(ms) ==
    <<"1", "9", "7", "0", "-", "0", "1", "-", "0", "1", "T">>
    \o <<Digit((ms \div 3600000) % 10)>> \o <<":">>
    \o Pad2((ms \div 60000) % 60) \o <<":">>
    \o Pad2((ms \div 1000) % 60) \o <<"Z">>

\* Date.prototype.toISOString of a time within the first day of the epoch
ToISOString(ms) ==
    <<"1", "9", "7", "0", "-", "0", "1", "-", "0", "1", "T">>
    \o Pad2(ms \div 3600000) \o <<":">>
    \o Pad2((ms \div 60000) % 60) \o <<":">>
    \o Pad2((ms \div 1000) % 60) \o <<".">>
    \o Pad3(ms % 1000) \o <<"Z">>

(* --------------------------- configuration ---------------------------- *)

\* process.env.NODE_ENV: not set, set to the empty string, or set to a mode
Unset == [set |-> FALSE, val |-> ""]
EnvValues == {Unset} \cup {[set |-> TRUE, val |-> v] : v \in {"", "production"}}

\* faulty variant: x ?? d, which keeps the empty string
OrDefaultNullish(x, d) == IF x.set THEN x.val ELSE d

\* x || d on an environment variable: undefined and "" are both falsy
OrDefault(x, d) == IF x.set /\ x.val # "" THEN x.val ELSE d

\* the files of the application's public directory
PublicFiles == {"index.html", "about.html", "404.html", "app.js", "styles.css"}

\* express.static('public') resolves against the working directory, which
\* holds the public directory only when the server was started from its own
\* directory; sendFile resolves against __dirname and always finds it
StaticRoot(inAppDir) == IF inAppDir THEN PublicFiles ELSE {}

ContentType(file) ==
    CASE file \in {"index.html", "about.html", "404.html"} -> "text/html"
      [] file = "styles.css" -> "text/css"
      [] OTHER -> "text/javascript"

(* ------------------------- the middleware stack ----------------------- *)

\* faulty variant: the fallback registered before the echo route
StackFallbackEarly == <<"static", "json", "root", "info", "greet", "notFound", "echo">>

\* app.use / app.get / app.post, in registration order
Stack == <<"static", "json", "root", "info", "greet", "echo", "notFound">>

\* past the last layer: the default handler of the framework
Final == Len(Stack) + 1

IsRoute(layer) == layer \in {"root", "info", "greet", "echo"}

\* app.get routes also answer HEAD
HandlesMethod(layer, method) ==
    IF layer = "echo" THEN method = "POST" ELSE method \in {"GET", "HEAD"}

\* non-strict routing: one trailing slash is optional
StripSlash(p) ==
    IF Len(p) > 1 /\ p[Len(p)] = "/" THEN SubSeq(p, 1, Len(p) - 1) ELSE p

\* the text :name captures in /api/greet/:name, <<>> when the path does not match
NameOf(path) ==
    LET p == StripSlash(path)
        n == Len(GreetPrefix)
    IN  IF /\ Len(p) > n
           /\ SubSeq(p, 1, n) = GreetPrefix
           /\ \A i \in (n + 1)..Len(p) : p[i] # "/"
        THEN SubSeq(p, n + 1, Len(p))
        ELSE <<>>

\* does the layer's path match: "yes", "no", or "error" when a parameter of
\* a matching path cannot be decoded
MatchLayer(layer, path) ==
    CASE layer = "root" -> IF path = RootPath THEN "yes" ELSE "no"
      [] layer = "info" -> IF StripSlash(path) = InfoPath THEN "yes" ELSE "no"
      [] layer = "echo" -> IF StripSlash(path) = EchoPath THEN "yes" ELSE "no"
      [] layer = "greet" ->
            IF NameOf(path) = <<>> THEN "no"
            ELSE IF DecodeURIComponent(NameOf(path)).ok THEN "yes" ELSE "error"
      [] OTHER -> "yes"

\* next(e) called at the layer before position j: the first layer from j on
\* that handles the request, with the pending error (0: none) and the
\* layers looked at on the way.  With an error pending no route matches and
\* the plain middlewares are skipped.
RECURSIVE Scan(_, _, _, _)
Scan(r, j, e, seen) ==
    IF j > Len(Stack) THEN [idx |-> Final, err |-> e, seen |-> seen]
    ELSE
        LET layer == Stack[j]
            m == MatchLayer(layer, r.path)
            looked == seen \cup {layer}
        IN  IF m = "error" THEN Scan(r, j + 1, IF e = 0 THEN 400 ELSE e, looked)
            ELSE IF m = "no" \/ e # 0 THEN Scan(r, j + 1, e, looked)
            ELSE IF IsRoute(layer) /\ ~HandlesMethod(layer, r.method)
                 THEN Scan(r, j + 1, e, looked)
            ELSE [idx |-> j, err |-> 0, seen |-> looked]

\* faulty variant: express.static with { index: false }
StaticLookupNoIndex(files, method, path) ==
    LET d == DecodeURIComponent(path)
    IN  IF method \notin {"GET", "HEAD"} \/ ~d.ok THEN ""
        ELSE IF Len(d.val) = 2 /\ d.val[2] \in files THEN d.val[2]
        ELSE ""

\* serve-static: the file a GET or HEAD of the path resolves to, "" for none
StaticLookup(files, method, path) ==
    LET d == DecodeURIComponent(path)
    IN  IF method \notin {"GET", "HEAD"} \/ ~d.ok THEN ""
        ELSE IF d.val[Len(d.val)] = "/" THEN
            IF d.val = RootPath /\ "index.html" \in files THEN "index.html" ELSE ""
        ELSE IF Len(d.val) = 2 /\ d.val[2] \in files THEN d.val[2]
        ELSE ""

(* ------------------------------ responses ----------------------------- *)

NoResponse == [status |-> 0, ctype |-> "", body |-> [kind |-> "none"], by |-> ""]

FileResponse(status, file, by) ==
    [status |-> status, ctype |-> ContentType(file),
     body |-> [kind |-> "file", file |-> file], by |-> by]

\* res.json
JsonResponse(obj, by) ==
    [status |-> 200, ctype |-> "application/json",
     body |-> [kind |-> "json", json |-> obj], by |-> by]

\* the framework's error page
ErrorResponse(status) ==
    [status |-> status, ctype |-> "text/html",
     body |-> [kind |-> "html", text |-> "error"], by |-> "final"]

\* a HEAD request is answered with the status and headers only
Send(method, r) ==
    IF method = "HEAD" THEN [r EXCEPT !.body = [kind |-> "none"]] ELSE r

\* faulty variant: the fallback forgets res.status(404)
NotFoundResponseOk == FileResponse(200, "404.html", "notFound")

\* res.status(404).sendFile(.../404.html)
NotFoundResponse == FileResponse(404, "404.html", "notFound")

NodeVersion == "v20.0.0"

\* faulty variant: the reply tells how long the process has run
InfoBodyWithUptime(env, ticks) ==
    [app |-> "Deploy Test Application",
     version |-> "1.0.0",
     timestamp |-> ToISOString(Now(ticks)),
     environment |-> OrDefault(env, "development"),
     node_version |-> NodeVersion,
     uptime |-> ticks]

InfoBody(env, ticks) ==
    [app |-> "Deploy Test Application",
     version |-> "1.0.0",
     timestamp |-> ToISOString(Now(ticks)),
     environment |-> OrDefault(env, "development"),
     node_version |-> NodeVersion]

\* faulty variant: the name is escaped for HTML before it is embedded
EscapeHtml(s) == [i \in 1..Len(s) |-> IF s[i] = "\"" THEN "&quot;" ELSE s[i]]
GreetBodyEscaped(name, ticks) ==
    [message |-> <<"Hello, ">> \o EscapeHtml(name) \o <<"! Welcome to Azure App Service.">>,
     timestamp |-> ToISOString(Now(ticks))]

GreetBody(name, ticks) ==
    [message |-> <<"Hello, ">> \o name \o <<"! Welcome to Azure App Service.">>,
     timestamp |-> ToISOString(Now(ticks))]

\* faulty variant: the reply reports an empty object whatever was sent
EchoBodyDropped(body, ticks) ==
    [received |-> EmptyObject, timestamp |-> ToISOString(Now(ticks))]

\* JSON.stringify leaves out a key whose value is undefined
EchoBody(body, ticks) ==
    IF body = NoValue THEN [timestamp |-> ToISOString(Now(ticks))]
    ELSE [received |-> body, timestamp |-> ToISOString(Now(ticks))]

(* -------------------------------- state ------------------------------- *)

VARIABLES
    nodeEnv,      \* process.env.NODE_ENV
    inAppDir,     \* the working directory is the application's directory
    phase,        \* per client: "idle", "pending" (in the stack) or "done"
    req,          \* per client: the request in flight
    idx,          \* per client: position of the request in the stack
    parsed,       \* per client: req.body
    err,          \* per client: the error passed to next(), 0 for none
    tried,        \* per client: the layers the request was matched against
    resp,         \* per client: the response sent
    pc,           \* deploy.ps1: the step the script is at
    hasPackageJson, \* deploy.ps1: package.json is in the current directory
    zip,          \* deploy.ps1: deploy.zip is in the current directory
    calls,        \* deploy.ps1: the az commands run so far, with results
    output,       \* deploy.ps1: the lines written to the host so far
    exitCode      \* deploy.ps1: the exit code of the script, once exited

config == <<nodeEnv, inAppDir>>
exchange == <<phase, req, idx, parsed, err, tried, resp>>
vars == <<nodeEnv, inAppDir, phase, req, idx, parsed, err, tried, resp>>
script == <<pc, hasPackageJson, zip, calls, output, exitCode>>

\* what an Express build without a request body leaves in req.body:
\* undefined, or {} (body-parser before 2.0)
UnparsedBodies == {NoValue, EmptyObject}

\* the deployment script has not run a command yet
ScriptStart ==
    /\ pc = "cli"
    /\ calls = <<>>
    /\ output = <<>>
    /\ exitCode = 0

\* the service as deployed: the script is not running beside it
Init ==
    /\ nodeEnv \in EnvValues
    /\ inAppDir \in BOOLEAN
    /\ phase = [c \in Clients |-> "idle"]
    /\ req = [c \in Clients |-> NoRequest]
    /\ idx = [c \in Clients |-> 0]
    /\ parsed = [c \in Clients |-> NoValue]
    /\ err = [c \in Clients |-> 0]
    /\ tried = [c \in Clients |-> {}]
    /\ resp = [c \in Clients |-> NoResponse]
    /\ ScriptStart
    /\ hasPackageJson = TRUE
    /\ zip = FALSE

At(c, layer) ==
    /\ phase[c] = "pending"
    /\ idx[c] \in 1..Len(Stack)
    /\ Stack[idx[c]] = layer

\* the handler ends the exchange with response r
Respond(c, r) ==
    /\ resp' = [resp EXCEPT ![c] = Send(req[c].method, r)]
    /\ phase' = [phase EXCEPT ![c] = "done"]
    /\ idx' = [idx EXCEPT ![c] = 0]
    /\ parsed' = [parsed EXCEPT ![c] = NoValue]
    /\ err' = [err EXCEPT ![c] = 0]
    /\ UNCHANGED <<req, tried>>

\* the handler calls next(e), leaving body in req.body
PassOn(c, e, body) ==
    LET s == Scan(req[c], idx[c] + 1, e, tried[c])
    IN  /\ idx' = [idx EXCEPT ![c] = s.idx]
        /\ err' = [err EXCEPT ![c] = s.err]
        /\ tried' = [tried EXCEPT ![c] = s.seen]
        /\ parsed' = [parsed EXCEPT ![c] = body]
        /\ UNCHANGED <<phase, req, resp>>

(* ------------------------------- actions ------------------------------ *)

\* a request arrives on a client's connection
Receive(c, r) ==
    /\ phase[c] = "idle"
    /\ LET s == Scan(r, 1, 0, {})
       IN  /\ idx' = [idx EXCEPT ![c] = s.idx]
           /\ err' = [err EXCEPT ![c] = s.err]
           /\ tried' = [tried EXCEPT ![c] = s.seen]
    /\ req' = [req EXCEPT ![c] = r]
    /\ phase' = [phase EXCEPT ![c] = "pending"]
    /\ UNCHANGED <<config, parsed, resp, script>>

\* app.use(express.static('public'))
ServeStatic(c) ==
    /\ At(c, "static")
    /\ LET f == StaticLookup(StaticRoot(inAppDir), req[c].method, req[c].path)
       IN  IF f # "" THEN Respond(c, FileResponse(200, f, "static"))
           ELSE PassOn(c, 0, parsed[c])
    /\ UNCHANGED <<config, script>>

\* app.use(express.json())
JsonParser(c) ==
    /\ At(c, "json")
    /\ LET b == req[c].body
       IN  IF ~b.present \/ b.ctype # "application/json"
           THEN \E u \in UnparsedBodies : PassOn(c, 0, u)
           ELSE IF JsonParse(b.raw).ok THEN PassOn(c, 0, JsonParse(b.raw).val)
           ELSE PassOn(c, 400, NoValue)
    /\ UNCHANGED <<config, script>>

\* app.get('/')
GetRoot(c) ==
    /\ At(c, "root")
    /\ Respond(c, FileResponse(200, "index.html", "root"))
    /\ UNCHANGED <<config, script>>

\* app.get('/api/info')
GetInfo(c) ==
    /\ At(c, "info")
    /\ \E t \in Times : Respond(c, JsonResponse(InfoBody(nodeEnv, t), "info"))
    /\ UNCHANGED <<config, script>>

\* app.get('/api/greet/:name')
GetGreet(c) ==
    /\ At(c, "greet")
    /\ LET name == DecodeURIComponent(NameOf(req[c].path)).val
       IN  \E t \in Times : Respond(c, JsonResponse(GreetBody(name, t), "greet"))
    /\ UNCHANGED <<config, script>>

\* app.post('/api/echo')
PostEcho(c) ==
    /\ At(c, "echo")
    /\ \E t \in Times : Respond(c, JsonResponse(EchoBody(parsed[c], t), "echo"))
    /\ UNCHANGED <<config, script>>

\* the 404 handler
NotFound(c) ==
    /\ At(c, "notFound")
    /\ Respond(c, NotFoundResponse)
    /\ UNCHANGED <<config, script>>

\* no layer is left: the framework answers with the pending error's status
FinalHandler(c) ==
    /\ phase[c] = "pending"
    /\ idx[c] = Final
    /\ Respond(c, ErrorResponse(IF err[c] # 0 THEN err[c] ELSE 404))
    /\ UNCHANGED <<config, script>>

\* the client has read the response; its connection is free again
Deliver(c) ==
    /\ phase[c] = "done"
    /\ phase' = [phase EXCEPT ![c] = "idle"]
    /\ req' = [req EXCEPT ![c] = NoRequest]
    /\ tried' = [tried EXCEPT ![c] = {}]
    /\ resp' = [resp EXCEPT ![c] = NoResponse]
    /\ UNCHANGED <<config, idx, parsed, err, script>>

Next ==
    \/ \E c \in Clients : \E r \in Sends(c) : Receive(c, r)
    \/ \E c \in Clients : ServeStatic(c)
    \/ \E c \in Clients : JsonParser(c)
    \/ \E c \in Clients : GetRoot(c)
    \/ \E c \in Clients : GetInfo(c)
    \/ \E c \in Clients : GetGreet(c)
    \/ \E c \in Clients : PostEcho(c)
    \/ \E c \in Clients : NotFound(c)
    \/ \E c \in Clients : FinalHandler(c)
    \/ \E c \in Clients : Deliver(c)

Spec == Init /\ [][Next]_<<vars, script>>

(* ------------------------- the deployment script ---------------------- *)

(***************************************************************************)
(* deploy.ps1 runs top to bottom inside one try block.  Each section of    *)
(* the script is one step; the results of the az commands it runs, and     *)
(* the outcome of the cmdlets that can fail, are inputs of the step.  A    *)
(* native command that fails sets $LASTEXITCODE and raises nothing; a      *)
(* cmdlet that fails raises ($ErrorActionPreference is "Stop") and the     *)
(* catch block exits with code 1.                                          *)
(***************************************************************************)

\* -AppName, as in the README's example run
AppName == "my-nodejs-app"
\* what az webapp show prints for --query "state" and "defaultHostName"
AppState == "Running"
HostName == "my-nodejs-app.azurewebsites.net"

\* $LASTEXITCODE after a native command: zero, or not
ExitCodes == {0, 1}

\* az ... --query q --output tsv 2>$null: the exit code, and the value or
\* nothing on the standard output
Query(value) ==
    { [exit |-> 0, out |-> value],
      [exit |-> 0, out |-> ""],
      [exit |-> 1, out |-> ""] }

\* one az command the script has run, with its result
Az(cmd, exit, out) == [cmd |-> cmd, exit |-> exit, out |-> out]

\* the script runs the commands cs, writes the lines ms and goes on to step p
GoOn(cs, ms, p) ==
    /\ calls' = calls \o cs
    /\ output' = output \o ms
    /\ pc' = p
    /\ UNCHANGED exitCode

\* the script runs the commands cs, writes the lines ms and exits
Exit(cs, ms, code) ==
    /\ calls' = calls \o cs
    /\ output' = output \o ms
    /\ pc' = "exited"
    /\ exitCode' = code

\* the script is run in any directory, with or without a manifest and a
\* package left by an earlier run
InitDeploy ==
    /\ ScriptStart
    /\ hasPackageJson \in BOOLEAN
    /\ zip \in BOOLEAN
    /\ nodeEnv = Unset
    /\ inAppDir = TRUE
    /\ phase = [c \in Clients |-> "idle"]
    /\ req = [c \in Clients |-> NoRequest]
    /\ idx = [c \in Clients |-> 0]
    /\ parsed = [c \in Clients |-> NoValue]
    /\ err = [c \in Clients |-> 0]
    /\ tried = [c \in Clients |-> {}]
    /\ resp = [c \in Clients |-> NoResponse]

\* Check if Azure CLI is installed
CheckCli ==
    /\ pc = "cli"
    /\ \E installed \in BOOLEAN :
          IF installed
          THEN GoOn(<<Az("version", 0, "json")>>,
                    <<"Starting Azure deployment for Node.js application",
                      "Checking Azure CLI installation...",
                      "Azure CLI version is installed">>,
                    "login")
          ELSE Exit(<<>>,
                    <<"Starting Azure deployment for Node.js application",
                      "Checking Azure CLI installation...",
                      "Azure CLI is not installed or not in PATH">>,
                    1)
    /\ UNCHANGED <<vars, hasPackageJson, zip>>

\* Check if logged in to Azure
Login ==
    /\ pc = "login"
    /\ \E show \in ExitCodes :
          IF show # 0
          THEN \E login \in ExitCodes :
                  IF login # 0
                  THEN Exit(<<Az("account show", show, ""),
                              Az("login", login, "")>>,
                            <<"Checking Azure login status...",
                              "Not logged in. Starting Azure login...",
                              "Azure login failed">>,
                            1)
                  ELSE GoOn(<<Az("account show", show, ""),
                              Az("login", login, ""),
                              Az("account show", 0, "json")>>,
                            <<"Checking Azure login status...",
                              "Not logged in. Starting Azure login...",
                              "Logged in">>,
                            "group")
          ELSE GoOn(<<Az("account show", show, "json")>>,
                    <<"Checking Azure login status...", "Logged in">>,
                    "group")
    /\ UNCHANGED <<vars, hasPackageJson, zip>>

\* Create resource group
ResourceGroup ==
    /\ pc = "group"
    /\ \E rgExists \in {"true", "false", ""} :
          LET exists == Az("group exists", IF rgExists = "" THEN 1 ELSE 0,
                           rgExists)
          IN  IF rgExists = "false"
              THEN \E create \in ExitCodes :
                      IF create # 0
                      THEN Exit(<<exists, Az("group create", create, "")>>,
                                <<"Creating or verifying resource group",
                                  "Creating resource group...",
                                  "Failed to create resource group">>,
                                1)
                      ELSE GoOn(<<exists, Az("group create", create, "")>>,
                                <<"Creating or verifying resource group",
                                  "Creating resource group...",
                                  "Resource group created">>,
                                "plan")
              ELSE GoOn(<<exists>>,
                        <<"Creating or verifying resource group",
                          "Resource group already exists">>,
                        "plan")
    /\ UNCHANGED <<vars, hasPackageJson, zip>>

\* Create App Service Plan
Plan ==
    /\ pc = "plan"
    /\ \E show \in ExitCodes :
          IF show # 0
          THEN \E create \in ExitCodes :
                  IF create # 0
                  THEN Exit(<<Az("appservice plan show", show, ""),
                              Az("appservice plan create", create, "")>>,
                            <<"Creating or verifying App Service Plan",
                              "Creating App Service Plan with SKU...",
                              "Failed to create App Service Plan">>,
                            1)
                  ELSE GoOn(<<Az("appservice plan show", show, ""),
                              Az("appservice plan create", create, "")>>,
                            <<"Creating or verifying App Service Plan",
                              "Creating App Service Plan with SKU...",
                              "App Service Plan created",
                              "Waiting for App Service Plan to be fully ready...">>,
                            "webapp")
          ELSE GoOn(<<Az("appservice plan show", show, "")>>,
                    <<"Creating or verifying App Service Plan",
                      "App Service Plan already exists">>,
                    "webapp")
    /\ UNCHANGED <<vars, hasPackageJson, zip>>

\* what az webapp create printed when it failed
CreateOutput == "az webapp create: error output"

\* a script that gave up when az webapp create failed
AfterCreateErrorFatal(cs, appCheck) ==
    Exit(cs \o <<Az("webapp show name", appCheck.exit, appCheck.out)>>,
         <<"Creating or verifying Web App",
           "Creating Web App with runtime...",
           CreateOutput,
           "Web App does not exist and creation failed">>,
         1)

\* az webapp create returned an error: the app is looked up once more, and
\* the script goes on to the configuration whatever the answer
AfterCreateError(cs, appCheck) ==
    GoOn(cs \o <<Az("webapp show name", appCheck.exit, appCheck.out)>>,
         <<"Creating or verifying Web App",
           "Creating Web App with runtime...",
           CreateOutput,
           "Web App creation returned an error, but checking if app exists anyway...">>
         \o (IF appCheck.out = ""
             THEN <<"Web App does not exist and creation failed",
                    "Common issues:",
                    "Attempting to continue with deployment anyway...">>
             ELSE <<"Web App exists despite error (Azure CLI bug workaround)">>),
         "configure")

\* Create Web App
CreateWebApp ==
    /\ pc = "webapp"
    /\ \E appExists \in Query(AppName) :
          LET show == Az("webapp show name", appExists.exit, appExists.out)
          IN  IF appExists.exit # 0 \/ appExists.out = ""
              THEN \E create \in ExitCodes :
                      IF create # 0
                      THEN \E appCheck \in Query(AppName) :
                              AfterCreateError(
                                  <<show, Az("webapp create", create, CreateOutput)>>,
                                  appCheck)
                      ELSE GoOn(<<show, Az("webapp create", create, "")>>,
                                <<"Creating or verifying Web App",
                                  "Creating Web App with runtime...",
                                  "Web App created",
                                  "Waiting for Web App to be fully provisioned...">>,
                                "configure")
              ELSE GoOn(<<show>>,
                        <<"Creating or verifying Web App",
                          "Web App already exists">>,
                        "configure")
    /\ UNCHANGED <<vars, hasPackageJson, zip>>

\* Configure deployment settings: only the exit code of the second command
\* is looked at, and the script continues either way
Configure ==
    /\ pc = "configure"
    /\ \E appsettings \in ExitCodes, startup \in ExitCodes :
          GoOn(<<Az("webapp config appsettings set", appsettings, ""),
                 Az("webapp config set", startup, "")>>,
               <<"Configuring deployment settings",
                 "Enabling build automation...",
                 IF startup # 0
                 THEN "Warning: Failed to configure deployment settings, but continuing..."
                 ELSE "Deployment settings configured",
                 "Waiting for configuration to propagate...">>,
               "package")
    /\ UNCHANGED <<vars, hasPackageJson, zip>>

\* Deploy application: the manifest is looked for, an old package removed
\* and the directory compressed; Compress-Archive raises when it fails
Package ==
    /\ pc = "package"
    /\ IF ~hasPackageJson
       THEN /\ Exit(<<>>,
                    <<"Deploying application to Azure",
                      "Creating deployment package...",
                      "package.json not found in current directory">>,
                    1)
            /\ UNCHANGED zip
       ELSE \E compressed \in BOOLEAN :
               IF compressed
               THEN /\ GoOn(<<>>,
                            <<"Deploying application to Azure",
                              "Creating deployment package...",
                              "Compressing files for deployment...",
                              "Deployment package created: deploy.zip">>,
                            "verify")
                    /\ zip' = TRUE
               ELSE /\ GoOn(<<>>,
                            <<"Deploying application to Azure",
                              "Creating deployment package...",
                              "Compressing files for deployment...">>,
                            "catch")
                    /\ zip' = FALSE
    /\ UNCHANGED <<vars, hasPackageJson>>

\* a script that went on to the upload without the app
CannotDeployContinues(appCheck) ==
    /\ GoOn(<<Az("webapp show state", appCheck.exit, appCheck.out)>>,
            <<"Uploading and deploying application...",
              "Cannot deploy: Web app does not exist in resource group",
              "Attempting to continue with deployment anyway...">>,
            "upload")
    /\ UNCHANGED zip

\* the app has no state to show: the package is removed and the script
\* exits with code 1
CannotDeploy(appCheck) ==
    /\ Exit(<<Az("webapp show state", appCheck.exit, appCheck.out)>>,
            <<"Uploading and deploying application...",
              "Cannot deploy: Web app does not exist in resource group",
              "The app may have failed to create due to SKU incompatibility (F1 doesn't support Linux)">>,
            1)
    /\ zip' = FALSE

\* Verify web app exists before deploying
VerifyWebApp ==
    /\ pc = "verify"
    /\ \E appCheck \in Query(AppState) :
          IF appCheck.out = ""
          THEN CannotDeploy(appCheck)
          ELSE /\ GoOn(<<Az("webapp show state", appCheck.exit, appCheck.out)>>,
                       <<"Uploading and deploying application...",
                         "Web app verified, state: Running">>,
                       "upload")
               /\ UNCHANGED zip
    /\ UNCHANGED <<vars, hasPackageJson>>

\* az webapp deploy, and what the script makes of its failure
Upload ==
    /\ pc = "upload"
    /\ \E deploy \in ExitCodes :
          IF deploy # 0
          THEN \E appUrl \in Query(HostName) :
                  GoOn(<<Az("webapp deploy", deploy, "error output"),
                         Az("webapp show defaultHostName", appUrl.exit, appUrl.out)>>,
                       <<"Warning: Deployment command returned an error",
                         "Checking if deployment actually succeeded...",
                         IF appUrl.out # ""
                         THEN "App URL is accessible, deployment may have succeeded despite error"
                         ELSE "Deployment verification failed">>,
                       "summary")
          ELSE GoOn(<<Az("webapp deploy", deploy, "")>>,
                    <<"Application deployed successfully">>,
                    "summary")
    /\ UNCHANGED <<vars, hasPackageJson, zip>>

\* Clean up deployment package, get the app URL, display summary; the
\* script ends
Summary ==
    /\ pc = "summary"
    /\ \E appUrl \in Query(HostName) :
          Exit(<<Az("webapp show defaultHostName", appUrl.exit, appUrl.out)>>,
               <<"Deployment Complete!", "App URL: https://" \o appUrl.out>>,
               0)
    /\ zip' = FALSE
    /\ UNCHANGED <<vars, hasPackageJson>>

\* the catch block of the script
Catch ==
    /\ pc = "catch"
    /\ Exit(<<>>, <<"An error occurred during deployment">>, 1)
    /\ UNCHANGED <<vars, hasPackageJson, zip>>

NextDeploy ==
    \/ CheckCli
    \/ Login
    \/ ResourceGroup
    \/ Plan
    \/ CreateWebApp
    \/ Configure
    \/ Package
    \/ VerifyWebApp
    \/ Upload
    \/ Summary
    \/ Catch

SpecDeploy == InitDeploy /\ [][NextDeploy]_<<vars, script>>

(* ------------------------------ the client ---------------------------- *)

\* the characters of a name as the user types it
PlainChars == {"n", "2", "\""}

PlainNames == SeqsUpTo(PlainChars, MaxNameLen) \ {<<>>}

\* encodeURIComponent, as greetUser applies it to the name: the quote is
\* escaped, letters and digits are kept
RECURSIVE EncodeURIComponent(_)
EncodeURIComponent(s) ==
    IF s = <<>> THEN <<>>
    ELSE (IF Head(s) = "\"" THEN <<"%", "2", "2">> ELSE <<Head(s)>>)
         \o EncodeURIComponent(Tail(s))

\* what the client does with a name typed: the name, and the path it asks for
GreetCalls == {[name |-> d, path |-> GreetPath(EncodeURIComponent(d))] : d \in PlainNames}

\* what the client does with a value: the value, and the text it sends
EchoCalls == {[value |-> v, text |-> Stringify(v)] : v \in SentValues}

(* ----------------------------- vocabulary ----------------------------- *)

Done(c) == phase[c] = "done"

IsJson(r) == r.body.kind = "json"

\* seq holds sub as a contiguous run
Contains(seq, sub) ==
    \E i \in 0..(Len(seq) - Len(sub)) : SubSeq(seq, i + 1, i + Len(sub)) = sub

\* a text that is one JSON value, of any shape
IsJsonText(raw) == ParseValue(raw).ok /\ ParseValue(raw).rest = <<>>

IsEchoPost(r) == r.method = "POST" /\ r.path = EchoPath

\* the body claims to be JSON and its text is there to be parsed
SentAsJson(b) == b.present /\ b.ctype = "application/json"

DigitValue(ch) == CHOOSE d \in 0..9 : Digit(d) = ch

IsDigits(s, from, to) == \A i \in from..to : \E d \in 0..9 : s[i] = Digit(d)

TwoDigits(s, i) == 10 * DigitValue(s[i]) + DigitValue(s[i + 1])

\* YYYY-MM-DDTHH:mm:ss.sssZ with every field in range
IsISODateTime(s) ==
    /\ Len(s) = 24
    /\ IsDigits(s, 1, 4) /\ s[5] = "-" /\ IsDigits(s, 6, 7) /\ s[8] = "-"
    /\ IsDigits(s, 9, 10) /\ s[11] = "T" /\ IsDigits(s, 12, 13) /\ s[14] = ":"
    /\ IsDigits(s, 15, 16) /\ s[17] = ":" /\ IsDigits(s, 18, 19) /\ s[20] = "."
    /\ IsDigits(s, 21, 23) /\ s[24] = "Z"
    /\ TwoDigits(s, 6) \in 1..12 /\ TwoDigits(s, 9) \in 1..31
    /\ TwoDigits(s, 12) \in 0..23 /\ TwoDigits(s, 15) \in 0..59
    /\ TwoDigits(s, 18) \in 0..59

(* -------------------------------- claims ------------------------------ *)

\* C1, as stated: a POST /api/echo whose body is absent, empty or not valid
\* JSON is answered with a 4xx status.
C1_EmptyOrInvalidIs4xx ==
    \A c \in Clients :
        (/\ Done(c)
         /\ IsEchoPost(req[c])
         /\ \/ ~req[c].body.present
            \/ req[c].body.raw = <<>>
            \/ ~IsJsonText(req[c].body.raw))
        => resp[c].status \in 400..499

\* C1, amended: a POST /api/echo whose body is sent as application/json and
\* whose text is neither empty nor a JSON object or array is answered with
\* status 400 by the framework's error handler, never by the echo handler;
\* an absent or empty body is answered with status 200 and a reply whose
\* received field is {} or left out.
C1_MalformedIs400EmptyIs200 ==
    \A c \in Clients :
        (Done(c) /\ IsEchoPost(req[c])) =>
            LET b == req[c].body
            IN  /\ (/\ SentAsJson(b)
                    /\ b.raw # <<>>
                    /\ ~(IsJsonText(b.raw) /\ b.raw[1] \in {"{", "["}))
                   => (resp[c].status = 400 /\ resp[c].by = "final")
                /\ (~b.present \/ b.raw = <<>>)
                   => /\ resp[c].status = 200
                      /\ resp[c].by = "echo"
                      /\ IsJson(resp[c])
                      /\ "timestamp" \in DOMAIN resp[c].body.json
                      /\ \/ "received" \notin DOMAIN resp[c].body.json
                         \/ resp[c].body.json.received = EmptyObject

\* C1, reached: a malformed JSON body was answered with 400, and an empty
\* one with 200, on the echo endpoint
C1_Witness ==
    /\ Done("c1") /\ IsEchoPost(req["c1"]) /\ req["c1"].body = JsonBody(<<>>)
    /\ resp["c1"].status = 200 /\ resp["c1"].body.json.received = EmptyObject
    /\ Done("c2") /\ IsEchoPost(req["c2"]) /\ req["c2"].body = JsonBody(<<"{">>)
    /\ resp["c2"].status = 400

\* C2, as stated: every JSON body sent to POST /api/echo, of whatever shape,
\* comes back as the received field of a reply that also has a timestamp.
C2_EveryShapeEchoed ==
    \A c \in Clients :
        (/\ Done(c) /\ IsEchoPost(req[c]) /\ SentAsJson(req[c].body)
         /\ IsJsonText(req[c].body.raw))
        => /\ resp[c].status = 200
           /\ IsJson(resp[c])
           /\ DOMAIN resp[c].body.json = {"received", "timestamp"}
           /\ resp[c].body.json.received = ParseValue(req[c].body.raw).val

\* C2, amended: every JSON object or array sent to POST /api/echo comes back
\* as the received field, deep-equal to the value the client serialised, of
\* a reply that also has a timestamp and nothing else; a JSON primitive
\* (null, boolean, number, string) is rejected with status 400.
C2_ObjectsAndArraysEchoed ==
    \A c \in Clients :
        (Done(c) /\ IsEchoPost(req[c]) /\ SentAsJson(req[c].body)) =>
            \A call \in EchoCalls :
                (req[c].body.raw = call.text) =>
                    IF call.value.t \in {"arr", "obj"}
                    THEN /\ resp[c].status = 200
                         /\ IsJson(resp[c])
                         /\ DOMAIN resp[c].body.json = {"received", "timestamp"}
                         /\ resp[c].body.json.received = call.value
                         /\ IsISODateTime(resp[c].body.json.timestamp)
                    ELSE resp[c].status = 400

\* C2, reached: the object {"message":"hi"} and a non-empty array were echoed
C2_Witness ==
    /\ Done("c2") /\ IsEchoPost(req["c2"])
    /\ req["c2"].body.raw = <<"{", "\"message\"", ":", "\"hi\"", "}">>
    /\ resp["c2"].status = 200
    /\ resp["c2"].body.json.received = JsonObj(<<JsonPrim("str")>>)
    /\ Done("c1") /\ IsEchoPost(req["c1"])
    /\ req["c1"].body.raw = <<"[", "null", "]">>
    /\ resp["c1"].status = 200
    /\ resp["c1"].body.json.received = JsonArr(<<JsonPrim("null")>>)

\* a GET that carries no body
IsPlainGet(r) == r.method = "GET" /\ r.body = NoBody

\* a GET without a body of a path below /api/greet/
IsGreetGet(r) ==
    /\ IsPlainGet(r)
    /\ Len(r.path) > Len(GreetPrefix)
    /\ SubSeq(r.path, 1, Len(GreetPrefix)) = GreetPrefix

\* C3: a GET of /api/greet/{name} with the name encoded as the client
\* encodes it is answered with a JSON object whose message contains the
\* name as typed, the quote included, neither re-encoded nor escaped.
C3_MessageContainsName ==
    \A c \in Clients :
        (Done(c) /\ IsGreetGet(req[c])) =>
            \A call \in GreetCalls :
                (req[c].path = call.path) =>
                    /\ resp[c].status = 200
                    /\ IsJson(resp[c])
                    /\ Contains(resp[c].body.json.message, call.name)

\* C3, reached: a name written with an escape was greeted with the
\* character the escape stands for
C3_Witness ==
    /\ Done("c1") /\ IsPlainGet(req["c1"])
    /\ req["c1"].path = GreetPath(<<"%", "2", "2">>)
    /\ resp["c1"].by = "greet"
    /\ Contains(resp["c1"].body.json.message, <<"\"">>)
    /\ Done("c2") /\ IsPlainGet(req["c2"])
    /\ req["c2"].path = GreetPath(<<"n">>)
    /\ Contains(resp["c2"].body.json.message, <<"n">>)

\* C4, as stated: the reply to GET /api/greet/{name} has the message
\* "Hello, {name}! Welcome.", a timestamp and no other field.
C4_MessageIsHelloWelcome ==
    \A c \in Clients :
        (Done(c) /\ IsGreetGet(req[c])) =>
            \A call \in GreetCalls :
                (req[c].path = call.path) =>
                    /\ IsJson(resp[c])
                    /\ DOMAIN resp[c].body.json = {"message", "timestamp"}
                    /\ resp[c].body.json.message = <<"Hello, ">> \o call.name \o <<"! Welcome.">>

\* C4, amended: for every non-empty name, the reply to GET /api/greet/{name}
\* is a JSON object whose message is exactly
\* "Hello, {name}! Welcome to Azure App Service." with the decoded name,
\* plus a timestamp and no other field.
C4_MessageIsHelloWelcomeToAzure ==
    \A c \in Clients :
        (Done(c) /\ IsGreetGet(req[c])) =>
            \A call \in GreetCalls :
                (req[c].path = call.path) =>
                    /\ resp[c].status = 200
                    /\ IsJson(resp[c])
                    /\ DOMAIN resp[c].body.json = {"message", "timestamp"}
                    /\ resp[c].body.json.message =
                          <<"Hello, ">> \o call.name \o <<"! Welcome to Azure App Service.">>
                    /\ IsISODateTime(resp[c].body.json.timestamp)

\* C4, reached: the names 2n and " (sent as %22) were greeted
C4_Witness ==
    /\ Done("c1") /\ IsPlainGet(req["c1"])
    /\ req["c1"].path = GreetPath(<<"2", "n">>)
    /\ resp["c1"].body.json.message =
          <<"Hello, ", "2", "n", "! Welcome to Azure App Service.">>
    /\ Done("c2") /\ IsPlainGet(req["c2"])
    /\ req["c2"].path = GreetPath(<<"%", "2", "2">>)
    /\ resp["c2"].body.json.message =
          <<"Hello, ", "\"", "! Welcome to Azure App Service.">>

IsInfoGet(r) == IsPlainGet(r) /\ r.path = InfoPath

\* C5, as stated: the reply to GET /api/info has exactly the fields app,
\* version, timestamp, environment and runtime_version, with app and
\* version non-empty and a well-formed timestamp.
C5_InfoHasRuntimeVersion ==
    \A c \in Clients :
        (Done(c) /\ IsInfoGet(req[c])) =>
            /\ IsJson(resp[c])
            /\ DOMAIN resp[c].body.json =
                  {"app", "version", "timestamp", "environment", "runtime_version"}
            /\ resp[c].body.json.app # ""
            /\ resp[c].body.json.version # ""
            /\ IsISODateTime(resp[c].body.json.timestamp)

\* C5, amended: the reply to GET /api/info is a JSON object with exactly the
\* fields app, version, timestamp, environment and node_version, in which
\* app and version are non-empty and timestamp is a well-formed ISO-8601
\* UTC date-time.
C5_InfoHasNodeVersion ==
    \A c \in Clients :
        (Done(c) /\ IsInfoGet(req[c])) =>
            /\ resp[c].status = 200
            /\ IsJson(resp[c])
            /\ DOMAIN resp[c].body.json =
                  {"app", "version", "timestamp", "environment", "node_version"}
            /\ resp[c].body.json.app # ""
            /\ resp[c].body.json.version # ""
            /\ IsISODateTime(resp[c].body.json.timestamp)

\* C5, reached: /api/info was answered at a time past the first reading of
\* the clock
C5_Witness ==
    /\ Done("c2") /\ IsInfoGet(req["c2"])
    /\ resp["c2"].by = "info"
    /\ resp["c2"].body.json.timestamp = ToISOString(Now(MaxTicks))
    /\ resp["c2"].body.json.timestamp # ToISOString(0)

\* C6, as stated: environment is "development" when NODE_ENV is not set and
\* the value of NODE_ENV, the empty string included, when it is set.
C6_EnvironmentEchoedVerbatim ==
    \A c \in Clients :
        (Done(c) /\ IsInfoGet(req[c])) =>
            /\ IsJson(resp[c])
            /\ resp[c].body.json.environment =
                  IF nodeEnv.set THEN nodeEnv.val ELSE "development"

\* C6, amended: environment is "development" when NODE_ENV is not set or is
\* set to the empty string, and for every non-empty value NODE_ENV is set to
\* it is that value echoed verbatim.
C6_EnvironmentDefaultsWhenEmpty ==
    \A c \in Clients :
        (Done(c) /\ IsInfoGet(req[c])) =>
            /\ IsJson(resp[c])
            /\ resp[c].body.json.environment =
                  IF nodeEnv.set /\ nodeEnv.val # "" THEN nodeEnv.val ELSE "development"

\* C6, reached: /api/info was answered with NODE_ENV set to the empty
\* string, and the reply says development
C6_Witness ==
    /\ nodeEnv = [set |-> TRUE, val |-> ""]
    /\ Done("c1") /\ IsInfoGet(req["c1"])
    /\ resp["c1"].body.json.environment = "development"

Routes == {layer \in {Stack[i] : i \in 1..Len(Stack)} : IsRoute(layer)}

\* the path is that of no route and of no file the static middleware serves
IsUnmatchedPath(path) ==
    /\ \A layer \in Routes : MatchLayer(layer, path) = "no"
    /\ StaticLookup(StaticRoot(inAppDir), "GET", path) = ""

NotFoundPage == [kind |-> "file", file |-> "404.html"]

\* C7, as stated: every request, of any method, whose path matches no route
\* and no static file is answered with status 404 and the not-found page.
C7_UnmatchedIs404 ==
    \A c \in Clients :
        (Done(c) /\ IsUnmatchedPath(req[c].path)) =>
            /\ resp[c].status = 404
            /\ resp[c].body = NotFoundPage

\* C7, amended: every request, of any method, whose path matches no route
\* and no static file, and whose body the JSON parser does not reject, is
\* answered by the fallback with status 404, content type text/html and the
\* not-found page (status and headers only when the method is HEAD); when
\* the parser rejects the body the answer is status 400 instead.
C7_UnmatchedIs404UnlessBodyRejected ==
    \A c \in Clients :
        (Done(c) /\ IsUnmatchedPath(req[c].path)) =>
            IF SentAsJson(req[c].body) /\ ~JsonParse(req[c].body.raw).ok
            THEN resp[c].status = 400 /\ resp[c].by = "final"
            ELSE /\ resp[c].status = 404
                 /\ resp[c].by = "notFound"
                 /\ resp[c].ctype = "text/html"
                 /\ resp[c].body =
                       IF req[c].method = "HEAD" THEN [kind |-> "none"] ELSE NotFoundPage

\* C7, reached: /does-not-exist was answered with the not-found page to a
\* DELETE and to a GET
C7_Witness ==
    /\ Done("c1") /\ req["c1"] = Request("DELETE", MissingPath, NoBody)
    /\ resp["c1"].status = 404 /\ resp["c1"].body = NotFoundPage
    /\ Done("c2") /\ req["c2"] = Request("GET", MissingPath, NoBody)
    /\ resp["c2"].status = 404 /\ resp["c2"].body = NotFoundPage

IndexPage == [kind |-> "file", file |-> "index.html"]

IsRootGet(r) == IsPlainGet(r) /\ r.path = RootPath

\* C8, as stated: GET / is answered with status 200, content type text/html
\* and the index document, by the explicit route for / and not by the
\* static middleware.
C8_RootServedByRoute ==
    \A c \in Clients :
        (Done(c) /\ IsRootGet(req[c])) =>
            /\ resp[c].status = 200
            /\ resp[c].ctype = "text/html"
            /\ resp[c].body = IndexPage
            /\ resp[c].by = "root"

\* C8, amended: GET / is answered with status 200, content type text/html
\* and the index document of the public directory; the answer comes from
\* the static middleware's index default whenever the static root holds
\* index.html, and from the explicit route for / only when it does not.
C8_RootServedByStaticFirst ==
    \A c \in Clients :
        (Done(c) /\ IsRootGet(req[c])) =>
            /\ resp[c].status = 200
            /\ resp[c].ctype = "text/html"
            /\ resp[c].body = IndexPage
            /\ resp[c].by =
                  IF "index.html" \in StaticRoot(inAppDir) THEN "static" ELSE "root"

\* C8, reached: with the server started in its own directory, GET / was
\* answered by the static middleware without the route being looked at
C8_Witness ==
    /\ inAppDir
    /\ Done("c1") /\ IsRootGet(req["c1"])
    /\ resp["c1"].by = "static" /\ resp["c1"].body = IndexPage
    /\ "root" \notin tried["c1"]

\* a response with the timestamp of its JSON body left out
StripTimestamp(r) ==
    IF IsJson(r)
    THEN [r EXCEPT !.body.json =
            [k \in DOMAIN r.body.json \ {"timestamp"} |-> r.body.json[k]]]
    ELSE r

\* all that the server holds for one client's request
ExchangeOf(c) == <<phase[c], req[c], idx[c], parsed[c], err[c], tried[c], resp[c]>>

\* two completed GET requests with the same inputs have the same response,
\* the timestamps aside
RepeatedGetSameAnswer ==
    \A c, d \in Clients :
        (Done(c) /\ Done(d) /\ req[c] = req[d] /\ req[c].method = "GET") =>
            StripTimestamp(resp[c]) = StripTimestamp(resp[d])

\* a step writes nothing but the exchange of one client
StepOfOneClient ==
    /\ UNCHANGED config
    /\ \E c \in Clients : \A d \in Clients \ {c} : ExchangeOf(d)' = ExchangeOf(d)

\* C9: however the requests of the clients interleave, a handler writes no
\* state that another request holds or reads, and two GET requests with the
\* same inputs get the same response, the timestamps aside, whatever the
\* clients sent before and in between.
C9_HandlersShareNothing == []RepeatedGetSameAnswer /\ [][StepOfOneClient]_vars

\* C9, reached: both clients asked for /api/info and were answered at
\* different times
C9_Witness ==
    /\ Done("c1") /\ Done("c2")
    /\ IsInfoGet(req["c1"]) /\ req["c2"] = req["c1"]
    /\ resp["c1"].body.json.timestamp # resp["c2"].body.json.timestamp

\* the request is one a route answers
MatchesRoute(r) ==
    \E layer \in Routes :
        MatchLayer(layer, r.path) = "yes" /\ HandlesMethod(layer, r.method)

\* the request is one the static middleware answers
MatchesStaticFile(r) ==
    StaticLookup(StaticRoot(inAppDir), r.method, r.path) # ""

\* C10: the fallback runs for a request, and answers it, only after the
\* static middleware, the body parser and every route were tried and none
\* of them took the request: a request that matches a route or an existing
\* static file is never at the fallback.
C10_FallbackIsLast ==
    \A c \in Clients :
        (At(c, "notFound") \/ (Done(c) /\ resp[c].by = "notFound")) =>
            /\ {"static", "json", "root", "info", "greet", "echo"} \subseteq tried[c]
            /\ ~MatchesRoute(req[c])
            /\ ~MatchesStaticFile(req[c])

\* C10, reached: a POST of /api/info, a path whose route takes only GET,
\* went through every layer and was answered by the fallback
C10_Witness ==
    /\ Done("c1") /\ req["c1"] = Request("POST", InfoPath, NoBody)
    /\ resp["c1"].by = "notFound"
    /\ tried["c1"] = {Stack[i] : i \in 1..Len(Stack)}


(* ---------------------- claims: the deployment script ----------------- *)

\* the script has written the line m
Wrote(m) == \E i \in 1..Len(output) : output[i] = m

\* the script has run the az command cmd
Ran(cmd) == \E i \in 1..Len(calls) : calls[i].cmd = cmd

\* az webapp create returned an error and the look-up that follows it
\* found the app
CreateFailedButAppFound ==
    \E i \in 1..(Len(calls) - 1) :
        /\ calls[i].cmd = "webapp create"
        /\ calls[i].exit # 0
        /\ calls[i + 1].cmd = "webapp show name"
        /\ calls[i + 1].out # ""

\* both commands of the configuration step have run
Configured ==
    /\ Ran("webapp config appsettings set")
    /\ Ran("webapp config set")

\* C11: once az webapp create has returned an error and the look-up after
\* it has found the app, the script has written the notice that creation
\* returned an error and the line that the app exists despite it, and it
\* is at the configuration step or has run both configuration commands
\* and entered the deploy step; in particular it has not exited before
\* that step (whether the upload itself runs there still depends on
\* package.json, the packaging and the check before az webapp deploy).
C11_CreateErrorWithAppFoundIsNotFatal ==
    CreateFailedButAppFound =>
        /\ Wrote("Web App creation returned an error, but checking if app exists anyway...")
        /\ Wrote("Web App exists despite error (Azure CLI bug workaround)")
        /\ \/ pc = "configure" /\ exitCode = 0
           \/ /\ Configured
              /\ pc = "package" \/ Wrote("Deploying application to Azure")

\* a run in which creation failed, the app was found, and the script went
\* all the way through the configuration and the upload to its summary
C11_Witness ==
    /\ CreateFailedButAppFound
    /\ Configured
    /\ Ran("webapp deploy")
    /\ Wrote("Deployment Complete!")
    /\ pc = "exited"
    /\ exitCode = 0

\* C12: every az webapp deploy the script has run comes right after an
\* az webapp show --query state that printed a state; and once that check
\* has printed nothing the script has exited with code 1, deploy.zip is
\* gone, no az webapp deploy has run and the summary was not written.
C12_UploadOnlyAfterStateCheck ==
    /\ \A i \in 1..Len(calls) :
          calls[i].cmd = "webapp deploy" =>
              /\ i > 1
              /\ calls[i - 1].cmd = "webapp show state"
              /\ calls[i - 1].out # ""
    /\ \A i \in 1..Len(calls) :
          (calls[i].cmd = "webapp show state" /\ calls[i].out = "") =>
              /\ pc = "exited"
              /\ exitCode = 1
              /\ ~zip
              /\ ~Ran("webapp deploy")
              /\ ~Wrote("Deployment Complete!")

\* a run whose package was made and whose state check printed nothing
C12_Witness ==
    /\ Wrote("Deployment package created: deploy.zip")
    /\ calls # <<>>
    /\ calls[Len(calls)].cmd = "webapp show state"
    /\ calls[Len(calls)].out = ""
    /\ pc = "exited"
    /\ exitCode = 1
    /\ ~zip

====
